---- MODULE Spec2Model ----
(***************************************************************************)
(* Model of src/api/handler.ts: a webhook handler that verifies a GitHub   *)
(* signature, maps pull_request events to Habitica todo tasks and answers  *)
(* 403 or 200.  Several invocations of the handler run interleaved at      *)
(* their await points; the Habitica tracker is the only shared state.      *)
(***************************************************************************)
EXTENDS Integers, Sequences, FiniteSets, TLC

\* ------------------------------------------------------------------ bounds
\* invocations of the handler that may be in progress at the same time
NumInv == 2
\* webhook deliveries handled in one behaviour
MaxDeliveries == 2
\* webhook deliveries handled one after the other in one behaviour
MaxSeqDeliveries == 5

Invs == 1..NumInv

\* --------------------------------------------------------- value domains
NoValue == "undefined"

\* HabiticaTaskPriority, in tenths (0.1, 1, 1.5, 2)
HabiticaTaskPriority == [Trivial |-> 1, Easy |-> 10, Medium |-> 15, Hard |-> 20]

\* webhook secrets a sender may sign with / the process may be configured with
Secrets == {"s1", "s2"}

\* logins, repositories and pull request numbers appearing in payloads
Owners == {"Acme"}
Authors == {"Acme", "bob"}
Repos == {"Widgets"}
Numbers == {42, 7}
Actions == {"opened", "closed", "edited"}
Events == {"pull_request", "issue_comment"}

\* request.body of a pull_request webhook: action, repository.owner.login,
\* repository.name, repository.full_name, number, pull_request.user.login,
\* pull_request.title, pull_request.html_url
Payloads ==
    [action : Actions, owner : Owners, name : Repos, full_name : {"Acme/Widgets"},
     number : Numbers, author : Authors, title : {"Fix it"},
     html_url : {"https://github.com/Acme/Widgets/pull"}]

\* a body that carries none of these fields (an empty body, another event's
\* payload): reading payload.pull_request.user throws
EmptyBody ==
    [action |-> NoValue, owner |-> NoValue, name |-> NoValue,
     full_name |-> NoValue, number |-> 0, author |-> NoValue,
     title |-> NoValue, html_url |-> NoValue]

Bodies == Payloads \cup {EmptyBody}

HasPullRequest(payload) == payload.author # NoValue

\* String.prototype.toLocaleLowerCase on the strings of the model
ToLocaleLowerCase(s) ==
    CASE s = "Acme" -> "acme"
      [] s = "ACME" -> "acme"
      [] s = "Widgets" -> "widgets"
      [] s = "WIDGETS" -> "widgets"
      [] OTHER -> s

\* the alias without its toLocaleLowerCase()
TaskAliasAsGiven(payload) ==
    <<"github__", payload.owner, payload.name, payload.number>>

\* `github__${owner}-${name}-${number}`.toLocaleLowerCase(), as its parts
TaskAlias(payload) ==
    <<"github__", ToLocaleLowerCase(payload.owner),
      ToLocaleLowerCase(payload.name), payload.number>>

\* the priority createTask falls back to when none is passed
TaskPriorityDefault(payload) == HabiticaTaskPriority.Easy

TaskPriority(payload) ==
    IF payload.author = payload.owner
    THEN HabiticaTaskPriority.Medium
    ELSE HabiticaTaskPriority.Easy

\* `${full_name}#${number}`
TaskText(payload) == <<payload.full_name, "#", payload.number>>

\* `${title}\n${html_url}`
TaskNote(payload) == <<payload.title, "\n", payload.html_url>>

Aliases == {TaskAlias(p) : p \in Payloads}

\* ------------------------------------------------- signature verification
\* createHmac('sha256', secret).update(rawBody).digest('hex'): an ideal MAC,
\* distinct for distinct (secret, body)
HmacHex(secret, rawBody) == <<secret, rawBody>>

\* `sha256=${hex}` as a string of three symbols
Digest(secret, rawBody) == <<"sha256=">> \o HmacHex(secret, rawBody)

\* an absent x-hub-signature-256 header
NoHeader == <<>>

\* the x-hub-signature-256 headers a sender may put on a request carrying
\* body b: none, one too short, one of the right length and another scheme,
\* the digest of the empty body, the digest of b under each secret

SigHeaders(b) ==
    {NoHeader, <<"sha256=">>, <<"sha1=", "s1", b>>, Digest("s1", EmptyBody)}
        \cup {Digest(s, b) : s \in Secrets}

\* Buffer.from(`${header}`, 'utf8'): an absent header reads "undefined"
SigBuffer(header) == IF header = NoHeader THEN <<"undefined">> ELSE header

Methods == {"POST", "GET"}

\* bodies sent with an event that is not a pull request
OtherBodies == {EmptyBody, CHOOSE p \in Payloads : p.action = "opened"}

RequestsWith(m, e, bodies) ==
    UNION {{[method |-> m, sig |-> h, event |-> e, body |-> b] :
                h \in SigHeaders(b)} : b \in bodies}

\* the deliveries: POSTs of pull_request events and of other events, and
\* requests of another method, which carry no body
Requests ==
    RequestsWith("POST", "pull_request", Bodies)
        \cup RequestsWith("POST", "issue_comment", OtherBodies)
        \cup RequestsWith("GET", "pull_request", {EmptyBody})
        \cup RequestsWith("GET", "issue_comment", {EmptyBody})

\* the bytes verifyRequestSignature reads from the request stream
RawBody(request) ==
    IF request.method = "POST" THEN request.body ELSE EmptyBody

\* `!value` on an environment variable: unset, or set to the empty string
Falsy(value) == value = NoValue \/ value = ""

\* verifyRequestSignature without its timingSafeEqual: the lengths alone decide
VerifyLengthOnly(request, secret) ==
    IF Falsy(secret)
    THEN FALSE
    ELSE Len(SigBuffer(request.sig)) = Len(Digest(secret, RawBody(request)))

\* verifyRequestSignature letting every request through when no secret is set
VerifyUnlessUnconfigured(request, secret) ==
    IF Falsy(secret)
    THEN TRUE
    ELSE LET sig == SigBuffer(request.sig)
             digest == Digest(secret, RawBody(request))
         IN  ~(Len(sig) # Len(digest) \/ sig # digest)

\* TRUE when verifyRequestSignature returns, FALSE when it throws
VerifyRequestSignature(request, secret) ==
    IF Falsy(secret)
    THEN FALSE
    ELSE LET sig == SigBuffer(request.sig)
             digest == Digest(secret, RawBody(request))
         IN  ~(Len(sig) # Len(digest) \/ sig # digest)

\* ------------------------------------------------------------------ state
VARIABLES
    env,          \* process.env: GITHUB_WEBHOOK_SECRET, HABITICA_USER_ID, HABITICA_API_TOKEN
    tasks,        \* aliases of the tasks the tracker holds
    pc,           \* where each invocation of handler stands
    genuine,      \* whether the request carried 'sha256=' + the HMAC of its body
    verified,     \* verifyRequestSignature: "none", "returned" or "threw"
    event,        \* request.headers['x-github-event'] of a verified request
    payload,      \* request.body of a verified request
    mapper,       \* "no", "entered", "returned" or "threw": updateHabiticaTodoFromGitHub
    fieldsRead,   \* whether the mapper read a field of the payload
    sent,         \* the responses the invocation sent, in order
    log,          \* the fetch requests the invocation sent, in order
    status,       \* the status hasTask saw (0: none yet, -1: fetch rejected)
    taskExists,   \* what hasTask gave: "none", "true", "false" or "throw"
    createCalls,  \* per alias: create requests sent over all invocations
    createFailed, \* per alias: create requests that left the tracker unchanged
    scoreCalls,   \* per alias: score requests sent over all invocations
    closedFound,  \* per alias: 'closed' deliveries whose existence check gave true
    delivered,    \* deliveries received so far
    args,         \* the arguments of a function applied on its own
    result        \* what it gave, <<>> before it is applied

vars ==
    <<env, tasks, pc, genuine, verified, event, payload, mapper, fieldsRead, sent, log,
      status, taskExists, createCalls, createFailed, scoreCalls, closedFound,
      delivered, args, result>>

\* the counters over all invocations
counters == <<createCalls, createFailed, scoreCalls, closedFound>>

\* the variables of the functions applied on their own
pure == <<args, result>>

\* the invocations and the tracker before any delivery
Idle ==
    /\ tasks = {}
    /\ pc = [i \in Invs |-> "idle"]
    /\ genuine = [i \in Invs |-> FALSE]
    /\ verified = [i \in Invs |-> "none"]
    /\ event = [i \in Invs |-> NoValue]
    /\ payload = [i \in Invs |-> EmptyBody]
    /\ mapper = [i \in Invs |-> "no"]
    /\ fieldsRead = [i \in Invs |-> FALSE]
    /\ sent = [i \in Invs |-> <<>>]
    /\ log = [i \in Invs |-> <<>>]
    /\ status = [i \in Invs |-> 0]
    /\ taskExists = [i \in Invs |-> "none"]
    /\ createCalls = [a \in Aliases |-> 0]
    /\ createFailed = [a \in Aliases |-> 0]
    /\ scoreCalls = [a \in Aliases |-> 0]
    /\ closedFound = [a \in Aliases |-> 0]
    /\ delivered = 0

\* statuses the tracker answers with besides 200 and 404
OtherStatuses == {500}
TransportError == -1

Init ==
    /\ env \in [secret : {"s1", NoValue},
                userId : {"u1", NoValue},
                apiToken : {"k1", NoValue}]
    /\ Idle
    /\ args = NoValue
    /\ result = <<>>

\* ------------------------------------------------------- HabiticaAPI.call
\* the check of line 51 without its test of the API token
UserIdPresent == env.userId # NoValue

\* the check of line 51: both credentials are set
CredentialsPresent == env.userId # NoValue /\ env.apiToken # NoValue

\* createTask creating a daily in place of a todo
CreateDailyRequest(alias, text, notes, priority) ==
    [op |-> "createTask", method |-> "POST", alias |-> alias, type |-> "daily",
     text |-> text, notes |-> notes, priority |-> priority,
     direction |-> NoValue]

\* the requests createTask, scoreTask and hasTask hand to fetch
CreateTaskRequest(alias, text, notes, priority) ==
    [op |-> "createTask", method |-> "POST", alias |-> alias, type |-> "todo",
     text |-> text, notes |-> notes, priority |-> priority,
     direction |-> NoValue]

ScoreTaskRequest(taskId, direction) ==
    [op |-> "scoreTask", method |-> "POST", alias |-> taskId, type |-> NoValue,
     text |-> <<>>, notes |-> <<>>, priority |-> 0, direction |-> direction]

HasTaskRequest(alias) ==
    [op |-> "hasTask", method |-> "GET", alias |-> alias, type |-> NoValue,
     text |-> <<>>, notes |-> <<>>, priority |-> 0, direction |-> NoValue]

\* hasTask taking every status but 404 for "the task exists"
HasTaskUnless404(st) == IF st = 404 THEN "false" ELSE "true"

\* hasTask's reading of the response: 404 false, 200 true, anything else throws
HasTask(st) ==
    IF st = 404 THEN "false"
    ELSE IF st = 200 THEN "true"
    ELSE "throw"

\* ------------------------------------------------------ ends of the handler
\* response.status(code).send(''), then the handler returns
Respond(i, code) ==
    /\ sent' = [sent EXCEPT ![i] = Append(@, [status |-> code, body |-> ""])]
    /\ pc' = [pc EXCEPT ![i] = "done"]

\* an error thrown after verification leaves the handler: nothing catches it,
\* its promise rejects and no response is sent
Throw(i) ==
    /\ pc' = [pc EXCEPT ![i] = "failed"]
    /\ mapper' = [mapper EXCEPT ![i] = "threw"]
    /\ UNCHANGED sent

\* updateHabiticaTodoFromGitHub returns; the handler sends 200
Return(i) ==
    /\ mapper' = [mapper EXCEPT ![i] = "returned"]
    /\ Respond(i, 200)

\* the catch block without its return: 403 is sent and the handler goes on
RejectAndGoOn(i) ==
    /\ sent' = [sent EXCEPT ![i] = Append(@, [status |-> 403, body |-> ""])]
    /\ pc' = [pc EXCEPT ![i] = "verified"]

\* the catch block of the handler: 403 with an empty body, and return
Reject(i) == Respond(i, 403)

\* ------------------------------------------------------------- the handler
\* the sender's side of the signature: the header is 'sha256=' followed by the
\* HMAC, under the configured secret, of the bytes the verifier reads
Genuine(request) ==
    /\ env.secret # NoValue
    /\ request.sig = <<"sha256=", env.secret, RawBody(request)>>

\* a delivery arrives and handler runs verifyRequestSignature: 403 when it
\* throws, otherwise on to the mapper
Receive(i, max) ==
    /\ pc[i] = "idle"
    /\ delivered < max
    /\ delivered' = delivered + 1
    /\ \E request \in Requests :
        /\ genuine' = [genuine EXCEPT ![i] = Genuine(request)]
        /\ IF VerifyRequestSignature(request, env.secret)
           THEN /\ verified' = [verified EXCEPT ![i] = "returned"]
                /\ event' = [event EXCEPT ![i] = request.event]
                /\ payload' = [payload EXCEPT ![i] = request.body]
                /\ pc' = [pc EXCEPT ![i] = "verified"]
                /\ UNCHANGED sent
           ELSE /\ verified' = [verified EXCEPT ![i] = "threw"]
                /\ Reject(i)
                /\ UNCHANGED <<event, payload>>
    /\ UNCHANGED <<env, tasks, mapper, fieldsRead, log, status, taskExists, counters,
                   pure>>

Handler(i) == Receive(i, MaxDeliveries)

\* no request leaves the invocation in this step
NoCall == UNCHANGED <<log, createCalls, scoreCalls>>

\* HabiticaAPI.call sending its request a second time
CallTwice(i, request, next) ==
    IF CredentialsPresent
    THEN /\ log' = [log EXCEPT ![i] = Append(Append(@, request), request)]
         /\ pc' = [pc EXCEPT ![i] = next]
         /\ mapper' = [mapper EXCEPT ![i] = "entered"]
         /\ createCalls' = IF request.op = "createTask"
                           THEN [createCalls EXCEPT ![request.alias] = @ + 1]
                           ELSE createCalls
         /\ scoreCalls' = IF request.op = "scoreTask"
                          THEN [scoreCalls EXCEPT ![request.alias] = @ + 1]
                          ELSE scoreCalls
         /\ UNCHANGED sent
    ELSE /\ Throw(i)
         /\ NoCall

\* HabiticaAPI.call up to its fetch: throws without credentials, otherwise
\* sends the request and waits at `next`
Call(i, request, next) ==
    IF CredentialsPresent
    THEN /\ log' = [log EXCEPT ![i] = Append(@, request)]
         /\ pc' = [pc EXCEPT ![i] = next]
         /\ mapper' = [mapper EXCEPT ![i] = "entered"]
         /\ createCalls' = IF request.op = "createTask"
                           THEN [createCalls EXCEPT ![request.alias] = @ + 1]
                           ELSE createCalls
         /\ scoreCalls' = IF request.op = "scoreTask"
                          THEN [scoreCalls EXCEPT ![request.alias] = @ + 1]
                          ELSE scoreCalls
         /\ UNCHANGED sent
    ELSE /\ Throw(i)
         /\ NoCall

\* the mapper without its test of the event type
AnyEvent(e) == TRUE

\* the test of line 196 on the x-github-event header
IsPullRequestEvent(e) == e = "pull_request"

\* the branches of lines 213-224 with a bare else in place of the second test
ActionPathBareElse(action) ==
    IF action = "opened" THEN "addTodo" ELSE "completeTodo"

\* the branch of lines 213-224 an action takes
ActionPath(action) ==
    CASE action = "opened" -> "addTodo"
      [] action = "closed" -> "completeTodo"
      [] OTHER -> "none"

\* updateHabiticaTodoFromGitHub from its start to its first await: the event
\* type, the payload fields, the action, and hasTask's request
Mapper(i) ==
    /\ pc[i] = "verified"
    /\ IF ~IsPullRequestEvent(event[i])
       THEN /\ Return(i)
            /\ NoCall
            /\ UNCHANGED fieldsRead
       ELSE /\ fieldsRead' = [fieldsRead EXCEPT ![i] = TRUE]
            /\ IF ~HasPullRequest(payload[i])
               THEN /\ Throw(i)
                    /\ NoCall
               ELSE IF ActionPath(payload[i].action) \in {"addTodo", "completeTodo"}
               THEN Call(i, HasTaskRequest(TaskAlias(payload[i])), "hasTask")
               ELSE /\ Return(i)
                    /\ NoCall
    /\ UNCHANGED <<env, tasks, genuine, verified, event, payload, status,
                   taskExists, createFailed, closedFound, delivered, pure>>

\* --------------------------------------------------------------- tracker
\* GET tasks/{alias}: 200 when the tracker holds the task, 404 when not
TrackerStatus(alias) == IF alias \in tasks THEN 200 ELSE 404

\* what may come back for a GET: the tracker's answer, another status, or a
\* rejected fetch
GetOutcomes(alias) == {TrackerStatus(alias)} \cup OtherStatuses \cup {TransportError}

\* addTodo without its test of taskExists, and with the test inverted
AddTodoAlwaysCreates(exists) == TRUE
AddTodoInverted(exists) == exists = "true"

\* addTodo creates when hasTask gave false (lines 132-137)
AddTodoCreates(exists) == exists = "false"

\* completeTodo without its test of taskExists, with the test inverted, and
\* never scoring
CompleteTodoAlwaysScores(exists) == TRUE
CompleteTodoInverted(exists) == exists = "false"
CompleteTodoNever(exists) == FALSE

\* completeTodo scores when hasTask gave true (lines 147-152)
CompleteTodoScores(exists) == exists = "true"

\* the request addTodo sends for the event
AddTodoRequest(p) ==
    CreateTaskRequest(TaskAlias(p), TaskText(p), TaskNote(p), TaskPriority(p))

\* completeTodo scoring the task down
CompleteTodoScoresDown(alias) == ScoreTaskRequest(alias, "down")

\* the request completeTodo sends
CompleteTodoRequest(alias) == ScoreTaskRequest(alias, "up")

\* the GET of hasTask comes back; hasTask reads the status; addTodo or
\* completeTodo returns, or sends its create or score request
HasTaskResponse(i) ==
    /\ pc[i] = "hasTask"
    /\ \E st \in GetOutcomes(TaskAlias(payload[i])) :
        LET exists == IF st = TransportError THEN "throw" ELSE HasTask(st)
            alias == TaskAlias(payload[i])
        IN  /\ status' = [status EXCEPT ![i] = st]
            /\ taskExists' = [taskExists EXCEPT ![i] = exists]
            /\ closedFound' =
                IF payload[i].action = "closed" /\ exists = "true"
                THEN [closedFound EXCEPT ![alias] = @ + 1]
                ELSE closedFound
            /\ IF exists = "throw"
               THEN /\ Throw(i)
                    /\ NoCall
               ELSE IF ActionPath(payload[i].action) = "addTodo"
               THEN IF AddTodoCreates(exists)
                    THEN Call(i, AddTodoRequest(payload[i]), "createTask")
                    ELSE /\ Return(i)
                         /\ NoCall
               ELSE IF CompleteTodoScores(exists)
                    THEN Call(i, CompleteTodoRequest(alias), "scoreTask")
                    ELSE /\ Return(i)
                         /\ NoCall
    /\ UNCHANGED <<env, tasks, genuine, verified, event, payload, fieldsRead,
                   createFailed, delivered, pure>>

\* the POST of createTask comes back: the task was created, or the tracker
\* refused it; the response arrived, or the fetch rejected
CreateTaskResponse(i) ==
    /\ pc[i] = "createTask"
    /\ \E created \in BOOLEAN, arrived \in BOOLEAN :
        LET alias == TaskAlias(payload[i])
        IN  /\ tasks' = IF created THEN tasks \cup {alias} ELSE tasks
            /\ createFailed' = IF created THEN createFailed
                               ELSE [createFailed EXCEPT ![alias] = @ + 1]
            /\ IF arrived THEN Return(i) ELSE Throw(i)
    /\ UNCHANGED <<env, genuine, verified, event, payload, fieldsRead, log,
                   status, taskExists, createCalls, scoreCalls, closedFound,
                   delivered, pure>>

\* the POST of scoreTask comes back, or the fetch rejected
ScoreTaskResponse(i) ==
    /\ pc[i] = "scoreTask"
    /\ \E arrived \in BOOLEAN :
        IF arrived THEN Return(i) ELSE Throw(i)
    /\ UNCHANGED <<env, tasks, genuine, verified, event, payload, fieldsRead,
                   log, status, taskExists, counters, delivered, pure>>

\* the invocation is over; a later delivery starts a fresh one
Release(i, max) ==
    /\ pc[i] \in {"done", "failed"}
    /\ delivered < max
    /\ pc' = [pc EXCEPT ![i] = "idle"]
    /\ genuine' = [genuine EXCEPT ![i] = FALSE]
    /\ verified' = [verified EXCEPT ![i] = "none"]
    /\ event' = [event EXCEPT ![i] = NoValue]
    /\ payload' = [payload EXCEPT ![i] = EmptyBody]
    /\ mapper' = [mapper EXCEPT ![i] = "no"]
    /\ fieldsRead' = [fieldsRead EXCEPT ![i] = FALSE]
    /\ sent' = [sent EXCEPT ![i] = <<>>]
    /\ log' = [log EXCEPT ![i] = <<>>]
    /\ status' = [status EXCEPT ![i] = 0]
    /\ taskExists' = [taskExists EXCEPT ![i] = "none"]
    /\ UNCHANGED <<env, tasks, counters, delivered, pure>>

Finish(i) == Release(i, MaxDeliveries)

Next ==
    \E i \in Invs :
        \/ Handler(i)
        \/ Mapper(i)
        \/ HasTaskResponse(i)
        \/ CreateTaskResponse(i)
        \/ ScoreTaskResponse(i)
        \/ Finish(i)

Spec == Init /\ [][Next]_vars

\* ------------------------------------------------ sequential deliveries
\* deliveries that do not overlap: one is received only when every earlier
\* invocation is over and gone
Active(i) == pc[i] # "idle"

SeqHandler(i) ==
    /\ \A j \in Invs : ~Active(j)
    /\ Receive(i, MaxSeqDeliveries)

SeqFinish(i) == Release(i, MaxSeqDeliveries)

SeqNext ==
    \E i \in Invs :
        \/ SeqHandler(i)
        \/ Mapper(i)
        \/ HasTaskResponse(i)
        \/ CreateTaskResponse(i)
        \/ ScoreTaskResponse(i)
        \/ SeqFinish(i)

SeqSpec == Init /\ [][SeqNext]_vars

\* ------------------------------------------- verifyRequestSignature alone
\* the secrets a process may be configured with or a sender may sign with
SigSecrets == Secrets \cup {""}

\* a sender signs body `signed` under secret `signer` and puts the signature
\* on a request of some method carrying some body; the process is configured
\* with some secret or none
SigInit ==
    /\ args \in {[secret |-> c, signer |-> s, signed |-> b,
                   request |-> [method |-> m, sig |-> Digest(s, b),
                                event |-> "pull_request", body |-> rb]] :
                    c \in SigSecrets \cup {NoValue}, s \in SigSecrets,
                    b \in Bodies, m \in Methods, rb \in Bodies}
    /\ result = <<>>
    /\ env = [secret |-> args.secret, userId |-> NoValue, apiToken |-> NoValue]
    /\ Idle

\* verifyRequestSignature is run on the request
VerifySignature ==
    /\ result = <<>>
    /\ result' = IF VerifyRequestSignature(args.request, args.secret)
                 THEN <<"returns">>
                 ELSE <<"throws">>
    /\ UNCHANGED <<env, tasks, pc, genuine, verified, event, payload, mapper,
                   fieldsRead, sent, log, status, taskExists, counters,
                   delivered, args>>

SigNext == VerifySignature

SigSpec == SigInit /\ [][SigNext]_vars

\* ------------------------------------------------------ the alias alone
\* owner logins and repository names in several letter cases
CaseOwners == {"Acme", "acme", "ACME", "bob"}
CaseRepos == {"Widgets", "widgets", "WIDGETS"}

CasePayloads ==
    [action : {"opened"}, owner : CaseOwners, name : CaseRepos,
     full_name : {"Acme/Widgets"}, number : Numbers, author : {"bob"},
     title : {"Fix it"}, html_url : {"https://github.com/Acme/Widgets/pull"}]

\* two pull request events
AliasInit ==
    /\ args \in [p : CasePayloads, q : CasePayloads]
    /\ result = <<>>
    /\ env = [secret |-> NoValue, userId |-> NoValue, apiToken |-> NoValue]
    /\ Idle

\* the mapper derives the alias of each
DeriveAlias ==
    /\ result = <<>>
    /\ result' = <<TaskAlias(args.p), TaskAlias(args.q)>>
    /\ UNCHANGED <<env, tasks, pc, genuine, verified, event, payload, mapper,
                   fieldsRead, sent, log, status, taskExists, counters,
                   delivered, args>>

AliasNext == DeriveAlias

AliasSpec == AliasInit /\ [][AliasNext]_vars

\* ------------------------------------------------------------ properties
Started(i) == pc[i] # "idle"
Over(i) == pc[i] \in {"done", "failed"}
Alias(i) == TaskAlias(payload[i])
Rejection == <<[status |-> 403, body |-> ""]>>
Success == <<[status |-> 200, body |-> ""]>>
\* the requests of kind op among those invocation i sent
Sent(i, op) == {k \in 1..Len(log[i]) : log[i][k].op = op}

\* C1: a request whose signature header is not 'sha256=' + the HMAC of the body
\* under the configured secret is answered 403 with an empty body, never enters
\* the mapper and sends nothing to the tracker.
C1_BadSignatureRejected ==
    \A i \in Invs :
        (Started(i) /\ ~genuine[i]) =>
            /\ pc[i] = "done"
            /\ sent[i] = Rejection
            /\ mapper[i] = "no"
            /\ ~fieldsRead[i]
            /\ log[i] = <<>>

C1_Witness ==
    \E i \in Invs :
        /\ env.secret # NoValue
        /\ pc[i] = "done"
        /\ ~genuine[i]
        /\ verified[i] = "threw"
        /\ sent[i] = Rejection

\* C2: every request that passed verification is answered 200 with an empty
\* body once its invocation is over, whatever was thrown after verification.
C2_VerifiedAlwaysAnswered200 ==
    \A i \in Invs :
        (verified[i] = "returned" /\ Over(i)) => sent[i] = Success

\* C3 as claimed: sequential 'opened' deliveries send at most one create
\* request per alias.
C3_AtMostOneCreateCall ==
    \A a \in Aliases : createCalls[a] <= 1

\* C3 as amended: over sequential deliveries a create request for an alias is
\* sent only while no earlier create for it took effect, so all but one of the
\* create requests for an alias are ones that left the tracker unchanged, and
\* none is sent for an alias the tracker holds.
C3_OneCreateUnlessFailed ==
    /\ \A a \in Aliases : createCalls[a] <= createFailed[a] + 1
    /\ \A i \in Invs : pc[i] = "createTask" => Alias(i) \notin tasks

\* the second 'opened' delivery found the task of the first and created nothing
C3_Witness ==
    \E i \in Invs :
        /\ pc[i] = "done"
        /\ payload[i].action = "opened"
        /\ taskExists[i] = "true"
        /\ Sent(i, "createTask") = {}
        /\ createCalls[Alias(i)] = 1
        /\ sent[i] = Success

\* C4: a 'closed' event for an alias the tracker does not hold scores nothing
\* and creates nothing; the existence check never gives true, and gives false
\* when the tracker answers.
C4_ClosedUnknownIsNoOp ==
    \A i \in Invs :
        (mapper[i] # "no" /\ IsPullRequestEvent(event[i])
            /\ payload[i].action = "closed" /\ Alias(i) \notin tasks) =>
            /\ Sent(i, "scoreTask") = {}
            /\ Sent(i, "createTask") = {}
            /\ taskExists[i] # "true"
            /\ status[i] # 200
            /\ status[i] = 404 => (taskExists[i] = "false" /\ sent[i] = Success)
            /\ scoreCalls[Alias(i)] = 0

C4_Witness ==
    \E i \in Invs :
        /\ pc[i] = "done"
        /\ payload[i].action = "closed"
        /\ Alias(i) \notin tasks
        /\ status[i] = 404
        /\ taskExists[i] = "false"
        /\ log[i] = <<HasTaskRequest(Alias(i))>>

\* C5: a verified pull_request 'closed' event whose existence check gives true
\* sends exactly one score request, for the event's alias and direction up,
\* and no create request.
C5_ClosedExistingScoresUp ==
    \A i \in Invs :
        (taskExists[i] = "true" /\ payload[i].action = "closed") =>
            /\ log[i] = <<HasTaskRequest(Alias(i)), ScoreTaskRequest(Alias(i), "up")>>
            /\ pc[i] \in {"scoreTask", "done", "failed"}

C5_Witness ==
    \E i \in Invs :
        /\ pc[i] = "done"
        /\ payload[i].action = "closed"
        /\ taskExists[i] = "true"
        /\ Cardinality(Sent(i, "scoreTask")) = 1
        /\ sent[i] = Success

\* C6: a verified request whose event type is not 'pull_request' sends nothing
\* to the tracker, has no field of its payload read, and is answered 200 with
\* an empty body.
C6_OtherEventIsNoOp ==
    \A i \in Invs :
        (verified[i] = "returned" /\ event[i] # "pull_request") =>
            /\ log[i] = <<>>
            /\ ~fieldsRead[i]
            /\ pc[i] \in {"verified", "done"}
            /\ pc[i] = "done" => sent[i] = Success

\* an issue_comment delivery with a body that has no pull request in it
C6_Witness ==
    \E i \in Invs :
        /\ pc[i] = "done"
        /\ event[i] = "issue_comment"
        /\ payload[i] = EmptyBody
        /\ mapper[i] = "returned"
        /\ sent[i] = Success

\* C7: a verified pull_request event whose action is neither 'opened' nor
\* 'closed' sends nothing to the tracker: no existence check, no create, no
\* score.
C7_OtherActionIsNoOp ==
    \A i \in Invs :
        (verified[i] = "returned" /\ event[i] = "pull_request"
            /\ payload[i].action \notin {"opened", "closed"}) =>
            /\ log[i] = <<>>
            /\ status[i] = 0
            /\ taskExists[i] = "none"

C7_Witness ==
    \E i \in Invs :
        /\ pc[i] = "done"
        /\ event[i] = "pull_request"
        /\ payload[i].action = "edited"
        /\ fieldsRead[i]
        /\ sent[i] = Success

\* C8: the existence check gives false exactly on 404 and true exactly on 200;
\* on any other status it throws, and the invocation sends no create and no
\* score request afterwards.
C8_HasTaskReadsStatus ==
    \A i \in Invs :
        status[i] # 0 =>
            /\ taskExists[i] = "false" <=> status[i] = 404
            /\ taskExists[i] = "true" <=> status[i] = 200
            /\ status[i] \notin {200, 404} =>
                /\ taskExists[i] = "throw"
                /\ pc[i] = "failed"
                /\ log[i] = <<HasTaskRequest(Alias(i))>>

C8_Witness ==
    \E i \in Invs :
        /\ status[i] \in OtherStatuses
        /\ taskExists[i] = "throw"
        /\ pc[i] = "failed"
        /\ sent[i] = <<>>

\* invocation i gets its existence check back and sends a create request
IssuesCreate(i) == HasTaskResponse(i) /\ pc'[i] = "createTask"

\* C9: nothing excludes duplicate 'opened' deliveries from one another: while
\* the tracker does not hold the alias, an invocation waiting for its check can
\* get false and send its create request whatever the other invocations have
\* done, also when another create request for the alias is already under way.
C9_CreateNeverExcluded ==
    \A i \in Invs :
        (pc[i] = "hasTask" /\ payload[i].action = "opened"
            /\ Alias(i) \notin tasks) => ENABLED IssuesCreate(i)

\* two invocations both got false and both sent a create request for the same
\* alias before either took effect
C9_Witness ==
    \E i, j \in Invs :
        /\ i # j
        /\ pc[i] = "createTask" /\ pc[j] = "createTask"
        /\ Alias(i) = Alias(j)
        /\ taskExists[i] = "false" /\ taskExists[j] = "false"
        /\ Alias(i) \notin tasks
        /\ createCalls[Alias(i)] = 2

\* C10: with the account identifier or the API token unset no request reaches
\* the tracker: an invocation that comes to a tracker call throws there and
\* sends nothing.
C10_NoRequestWithoutCredentials ==
    (env.userId = NoValue \/ env.apiToken = NoValue) =>
        \A i \in Invs :
            /\ log[i] = <<>>
            /\ pc[i] \notin {"hasTask", "createTask", "scoreTask"}
            /\ (mapper[i] # "no" /\ event[i] = "pull_request"
                    /\ payload[i].action \in {"opened", "closed"}) =>
                (pc[i] = "failed" /\ sent[i] = <<>>)

C10_Witness ==
    \E i \in Invs :
        /\ env.userId # NoValue
        /\ env.apiToken = NoValue
        /\ payload[i].action = "opened"
        /\ mapper[i] = "threw"
        /\ pc[i] = "failed"
        /\ log[i] = <<>>


\* C11: with GITHUB_WEBHOOK_SECRET unset every delivery, whatever its signature
\* header and body, is answered 403 with an empty body; the mapper is not run
\* and nothing is sent to the tracker.
C11_NoSecretRejectsAll ==
    env.secret = NoValue =>
        \A i \in Invs :
            /\ pc[i] \in {"idle", "done"}
            /\ mapper[i] = "no"
            /\ log[i] = <<>>
            /\ tasks = {}
            /\ Started(i) => (verified[i] = "threw" /\ sent[i] = Rejection)

C11_Witness ==
    /\ env.secret = NoValue
    /\ CredentialsPresent
    /\ delivered = MaxDeliveries
    /\ \A i \in Invs : pc[i] = "done" /\ sent[i] = Rejection


CaseClasses == {{"Acme", "acme", "ACME"}, {"Widgets", "widgets", "WIDGETS"}, {"bob"}}
Lowercase == {"acme", "widgets", "bob"}
SameButCase(a, b) == \E c \in CaseClasses : a \in c /\ b \in c
\* alias is 'github__{owner}-{name}-{number}' of the event, lowercased
LowercasedAliasOf(alias, p) ==
    /\ alias[1] = "github__"
    /\ alias[2] \in Lowercase /\ SameButCase(alias[2], p.owner)
    /\ alias[3] \in Lowercase /\ SameButCase(alias[3], p.name)
    /\ alias[4] = p.number

\* C13: the alias of an event is the lowercased 'github__{owner}-{repo}-{number}',
\* and two events whose owner and repository differ only in letter case, with
\* the same number, get the same alias; Acme/Widgets/42 gets
\* 'github__acme-widgets-42'.
C13_AliasLowercased ==
    result # <<>> =>
        /\ LowercasedAliasOf(result[1], args.p)
        /\ LowercasedAliasOf(result[2], args.q)
        /\ (SameButCase(args.p.owner, args.q.owner)
                /\ SameButCase(args.p.name, args.q.name)
                /\ args.p.number = args.q.number) => result[1] = result[2]
        /\ (args.p.owner = "Acme" /\ args.p.name = "Widgets" /\ args.p.number = 42)
                => result[1] = <<"github__", "acme", "widgets", 42>>

C13_Witness ==
    /\ result # <<>>
    /\ args.p.owner = "Acme" /\ args.p.name = "Widgets" /\ args.p.number = 42
    /\ args.q.owner = "ACME" /\ args.q.name = "widgets" /\ args.q.number = 42
    /\ result[1] = result[2]
    /\ result[1] = <<"github__", "acme", "widgets", 42>>


\* C14: every create request of an 'opened' event carries the event's alias,
\* type 'todo', and priority Medium when the author's login is the repository
\* owner's, Easy otherwise; it is the only create request of its invocation
\* and follows an existence check of that invocation that gave false.
C14_CreateCarriesEvent ==
    \A i \in Invs :
        /\ Cardinality(Sent(i, "createTask")) <= 1
        /\ \A k \in Sent(i, "createTask") :
            /\ event[i] = "pull_request"
            /\ payload[i].action = "opened"
            /\ k = 2
            /\ log[i][1] = HasTaskRequest(log[i][k].alias)
            /\ status[i] = 404
            /\ taskExists[i] = "false"
            /\ log[i][k].alias =
                <<"github__", ToLocaleLowerCase(payload[i].owner),
                  ToLocaleLowerCase(payload[i].name), payload[i].number>>
            /\ log[i][k].type = "todo"
            /\ log[i][k].method = "POST"
            /\ log[i][k].priority =
                IF payload[i].author = payload[i].owner THEN 15 ELSE 10

\* Acme/Widgets/42 opened by its owner: one create, Medium
C14_Witness ==
    \E i \in Invs :
        /\ pc[i] = "done"
        /\ payload[i].action = "opened"
        /\ payload[i].owner = "Acme" /\ payload[i].author = "Acme"
        /\ taskExists[i] = "false"
        /\ Len(log[i]) = 2
        /\ log[i][2].op = "createTask"
        /\ log[i][2].alias = <<"github__", "acme", "widgets", 42>>
        /\ log[i][2].priority = HabiticaTaskPriority.Medium
        /\ sent[i] = Success


\* C15: within one invocation at most one existence check is sent, it is
\* answered before any create or score is sent, at most one create or score
\* follows it, and after a failure the invocation sends nothing more.
C15_Ordered ==
    \A i \in Invs :
        /\ Len(log[i]) <= 2
        /\ Cardinality(Sent(i, "hasTask")) <= 1
        /\ Cardinality(Sent(i, "createTask")) + Cardinality(Sent(i, "scoreTask")) <= 1
        /\ Len(log[i]) >= 1 => log[i][1].op = "hasTask"
        /\ pc[i] = "hasTask" => Len(log[i]) = 1 /\ taskExists[i] = "none"
        /\ Len(log[i]) = 2 =>
            /\ log[i][2].op \in {"createTask", "scoreTask"}
            /\ taskExists[i] \in {"true", "false"}
        /\ taskExists[i] = "throw" => Len(log[i]) = 1 /\ pc[i] = "failed"

C15_NoRetry ==
    \A i \in Invs :
        pc[i] = "failed" => (log'[i] = log[i] \/ pc'[i] = "idle")

C15_SequentialNoRetry == [](C15_Ordered) /\ [][C15_NoRetry]_vars

\* a failed existence check, and nothing sent after it
C15_Witness ==
    \E i \in Invs :
        /\ pc[i] = "failed"
        /\ taskExists[i] = "throw"
        /\ Len(log[i]) = 1
        /\ log[i][1].op = "hasTask"

\* C16: the only requests sent to the tracker are a GET lookup by alias, a
\* POST creating a 'todo' and a POST scoring 'up'; no step removes an alias
\* from the tracker.
C16_RequestKinds ==
    \A i \in Invs : \A k \in 1..Len(log[i]) :
        \/ /\ log[i][k].op = "hasTask"
           /\ log[i][k].method = "GET"
        \/ /\ log[i][k].op = "createTask"
           /\ log[i][k].method = "POST"
           /\ log[i][k].type = "todo"
        \/ /\ log[i][k].op = "scoreTask"
           /\ log[i][k].method = "POST"
           /\ log[i][k].direction = "up"

C16_OnlyLookupCreateScoreUp ==
    [](C16_RequestKinds) /\ [][tasks \subseteq tasks']_vars

\* one invocation has created a todo and another has scored one that is
\* still in the tracker
C16_Witness ==
    \E i, j \in Invs :
        /\ Sent(i, "createTask") # {}
        /\ Sent(j, "scoreTask") # {}
        /\ Alias(j) \in tasks

\* C17: from an empty tracker, a score request for an alias is sent only when
\* a create request for that alias has taken effect.
C17_ScoredOnlyAfterCreated ==
    /\ \A a \in Aliases :
        /\ scoreCalls[a] > 0 => a \in tasks
        /\ a \in tasks => createCalls[a] > createFailed[a]
    /\ \A i \in Invs :
        Sent(i, "scoreTask") # {} =>
            /\ payload[i].action = "closed"
            /\ Alias(i) \in tasks

\* the create of an alias took effect and a later 'closed' delivery scores it
C17_Witness ==
    \E i \in Invs :
        /\ pc[i] = "scoreTask"
        /\ scoreCalls[Alias(i)] = 1
        /\ createCalls[Alias(i)] = 1
        /\ Alias(i) \in tasks


\* C18: an invocation sends at most one response; after 403 it is over, the
\* mapper has not run and no 200 follows; 200 is sent only after verification
\* succeeded and the mapper returned.
C18_OneOutcome ==
    \A i \in Invs :
        /\ Len(sent[i]) <= 1
        /\ sent[i] # <<>> => sent[i] \in {Rejection, Success} /\ pc[i] = "done"
        /\ sent[i] = Rejection =>
            /\ verified[i] = "threw"
            /\ mapper[i] = "no"
            /\ ~fieldsRead[i]
            /\ log[i] = <<>>
        /\ sent[i] = Success =>
            /\ verified[i] = "returned"
            /\ mapper[i] = "returned"

C18_NothingAfterResponse ==
    \A i \in Invs :
        sent[i] # <<>> => (sent'[i] = sent[i] \/ pc'[i] = "idle")

C18_AtMostOneResponse == [](C18_OneOutcome) /\ [][C18_NothingAfterResponse]_vars

\* one invocation ended with 403, another with 200
C18_Witness ==
    \E i, j \in Invs :
        /\ sent[i] = Rejection /\ pc[i] = "done"
        /\ sent[j] = Success /\ pc[j] = "done"

\* C19: over sequential deliveries, for every alias the number of score
\* requests equals the number of 'closed' deliveries whose existence check
\* gave true; a repeated 'closed' delivery scores again.
C19_ScorePerClosedFound ==
    /\ \A a \in Aliases : scoreCalls[a] = closedFound[a]
    /\ \A i \in Invs :
        (payload[i].action = "closed" /\ taskExists[i] = "true") =>
            /\ Cardinality(Sent(i, "scoreTask")) = 1
            /\ log[i][2].alias = Alias(i)
            /\ log[i][2].direction = "up"

\* a second 'closed' delivery of an alias scored it a second time
C19_Witness ==
    \E i \in Invs :
        /\ payload[i].action = "closed"
        /\ taskExists[i] = "true"
        /\ Sent(i, "scoreTask") # {}
        /\ scoreCalls[Alias(i)] = 2
        /\ closedFound[Alias(i)] = 2

====
